---- MODULE Spec2Model ----
(***************************************************************************)
(* Model of the autorun dry-run harnesses:                                 *)
(*   src/test_suite.py       TestRunner      (the "strict" variant)        *)
(*   src/live_test_suite.py  LiveTestRunner  (the "live" variant)          *)
(*                                                                         *)
(* Text is modelled as a tuple of one-character strings so that split,     *)
(* strip, lower and substring search are computed the way Python computes  *)
(* them.  A Python dict is a function whose DOMAIN is its key set; None    *)
(* and optional values are tuples of length 0 and 1.  Timestamps           *)
(* (datetime.now) and console output are not part of the state.            *)
(***************************************************************************)
EXTENDS Integers, Sequences, FiniteSets, TLC

VARIABLES
    variant,    \* which script was started: "strict", "live" ("none": not started)
    pc,         \* position of main(): "start", "loop", "print", "return", "done", "crashed"
    idx,        \* index into TEST_REPOS of the next repository of the for loop
    fs,         \* per variant, <test_dir>/repos: directory name -> directory snapshot
    results,    \* self.results
    report,     \* Option: the dict generate_report returned
    printed,    \* whether print_report ran to its end
    ret,        \* Option: the value main() returned
    exc,        \* Option: the uncaught exception that ended main()
    calls,      \* trace of the helper invocations made by analyze_repo: <<function, repo>>
    gitCalls,   \* repositories for which the git clone subprocess was started
    faults,     \* number of repositories whose environment left the happy path
    input,      \* argument drawn for a direct call of a helper function
    rd,         \* Option: what read_readme returned for input
    deps,       \* Option: what detect_dependencies returned for input
    plan,       \* Option: what generate_action_plan returned for input
    lres,       \* Option: what test_runthis_cli returned for a clone of input
    last,       \* Option: record of the latest clone_repo call
    fetched,    \* history: <<variant, repo>> pairs whose clone_repo call has succeeded
    nfetch      \* number of clone_repo calls made

vars ==
    <<variant, pc, idx, fs, results, report, printed, ret, exc, calls, gitCalls,
      faults, input, rd, deps, plan, lres, last, fetched, nfetch>>

orchVars ==
    <<variant, pc, idx, results, report, printed, ret, exc, calls, gitCalls, faults>>

fnVars ==
    <<input, rd, deps, plan, lres>>

fetchVars ==
    <<last, fetched, nfetch>>

-----------------------------------------------------------------------------
(* Python values *)

None ==
    <<>>

Some(v) ==
    <<v>>

EmptyDict ==
    [k \in {} |-> k]

Min(a, b) ==
    IF a <= b THEN a ELSE b

-----------------------------------------------------------------------------
(* str methods *)

UpperChars ==
    <<"A", "B", "C", "D", "E", "F", "G", "H", "I", "J", "K", "L", "M",
      "N", "O", "P", "Q", "R", "S", "T", "U", "V", "W", "X", "Y", "Z">>

LowerChars ==
    <<"a", "b", "c", "d", "e", "f", "g", "h", "i", "j", "k", "l", "m",
      "n", "o", "p", "q", "r", "s", "t", "u", "v", "w", "x", "y", "z">>

Whitespace ==
    {" ", "\t", "\n", "\r", "\f"}

\* the backquote character (a string literal cannot hold it, so it gets a name)
BQ ==
    "BQ"

Backtick ==
    {BQ}

LowerChar(c) ==
    IF \E i \in 1..Len(UpperChars) : UpperChars[i] = c
    THEN LowerChars[CHOOSE i \in 1..Len(UpperChars) : UpperChars[i] = c]
    ELSE c

\* str.lower()
Lower(s) ==
    [i \in 1..Len(s) |-> LowerChar(s[i])]

\* str.strip(chars): drop the longest prefix and suffix made of chars
Strip(s, chars) ==
    LET keep == {i \in 1..Len(s) : s[i] \notin chars}
    IN  IF keep = {} THEN <<>>
        ELSE LET lo == CHOOSE i \in keep : \A j \in keep : i <= j
                 hi == CHOOSE i \in keep : \A j \in keep : j <= i
             IN  SubSeq(s, lo, hi)

\* sub in s
Contains(sub, s) ==
    \E i \in 0..(Len(s) - Len(sub)) : SubSeq(s, i + 1, i + Len(sub)) = sub

\* s.startswith(p)
StartsWith(s, p) ==
    Len(p) <= Len(s) /\ SubSeq(s, 1, Len(p)) = p

\* s.split(newline): always at least one piece, pieces hold no newline
RECURSIVE Split(_)
Split(s) ==
    IF \A i \in 1..Len(s) : s[i] # "\n" THEN <<s>>
    ELSE LET k == CHOOSE i \in 1..Len(s) :
                      s[i] = "\n" /\ \A j \in 1..(i - 1) : s[j] # "\n"
         IN  <<SubSeq(s, 1, k - 1)>> \o Split(SubSeq(s, k + 1, Len(s)))

\* s.replace(a, b) for one-character a and b
Replace(s, a, b) ==
    [i \in 1..Len(s) |-> IF s[i] = a THEN b ELSE s[i]]

\* newline.join(lines)
RECURSIVE Join(_)
Join(lines) ==
    IF lines = <<>> THEN <<>>
    ELSE IF Len(lines) = 1 THEN lines[1]
    ELSE lines[1] \o <<"\n">> \o Join(Tail(lines))

-----------------------------------------------------------------------------
(* String constants of the two scripts and the README lines used as inputs *)

KwNpmRun ==
    <<"n", "p", "m", " ", "r", "u", "n">>

KwNpmStart ==
    <<"n", "p", "m", " ", "s", "t", "a", "r", "t">>

KwPython ==
    <<"p", "y", "t", "h", "o", "n">>

KwCargoRun ==
    <<"c", "a", "r", "g", "o", " ", "r", "u", "n">>

KwMake ==
    <<"m", "a", "k", "e">>

KwDotSlash ==
    <<".", "/">>

VbRun ==
    <<"r", "u", "n">>

VbStart ==
    <<"s", "t", "a", "r", "t">>

VbBuild ==
    <<"b", "u", "i", "l", "d">>

Hash ==
    <<"#">>

CommentOpen ==
    <<"<", "!", "-", "-">>

MsgNoReadme ==
    <<"N", "o", " ", "R", "E", "A", "D", "M", "E", " ", "f", "o", "u", "n", "d">>

MsgAlreadyCloned ==
    <<"A", "l", "r", "e", "a", "d", "y", " ", "c", "l", "o", "n", "e", "d">>

MsgIsADirectory ==
    <<"[", "E", "r", "r", "n", "o", " ", "2", "1", "]", " ", "I", "s", " ", "a", " ",
      "d", "i", "r", "e", "c", "t", "o", "r", "y">>

MsgGitFatal ==
    <<"f", "a", "t", "a", "l", ":", " ", "r", "e", "p", "o", "s", "i", "t", "o", "r",
      "y", " ", "n", "o", "t", " ", "f", "o", "u", "n", "d">>

MsgTimedOut ==
    <<"C", "o", "m", "m", "a", "n", "d", " ", "t", "i", "m", "e", "d", " ", "o", "u",
      "t", " ", "a", "f", "t", "e", "r", " ", "6", "0", " ", "s", "e", "c", "o", "n", "d",
      "s">>

LnNpmRunBuild ==
    <<BQ, "n", "p", "m", " ", "r", "u", "n", " ", "b", "u", "i", "l", "d", BQ>>

LnRunNpmStart ==
    <<"R", "u", "n", ":", " ", "n", "p", "m", " ", "s", "t", "a", "r", "t">>

LnProse ==
    <<"h", "e", "l", "l", "o">>

LnHashMakeBuild ==
    <<"#", " ", "m", "a", "k", "e", " ", "b", "u", "i", "l", "d">>

LnHtmlComment ==
    <<"<", "!", "-", "-", " ", ".", "/", "r", "u", "n", " ", "-", "-", ">">>

LnNestedTicks ==
    <<BQ, " ", BQ, "m", "a", "k", "e", " ", "r", "u", "n", BQ>>

LnPythonOnly ==
    <<" ", " ", "p", "y", "t", "h", "o", "n", "3", " ", "a", "p", "p", ".", "p", "y">>

LnUpperMake ==
    <<"\t", "M", "A", "K", "E", " ", "B", "U", "I", "L", "D", " ", " ">>

LnTickHash ==
    <<BQ, " ", "#", " ", ".", "/", "s", "t", "a", "r", "t", BQ>>

LnCargoRun ==
    <<" ", " ", " ", "c", "a", "r", "g", "o", " ", "r", "u", "n", "\r">>

LnTicksOnly ==
    <<BQ, BQ>>

LnEmpty ==
    <<>>

-----------------------------------------------------------------------------
(* A cloned directory: file name -> [readable, text].  readable = FALSE is  *)
(* an entry that exists but whose read_text() raises (a directory of that   *)
(* name, bytes that do not decode).                                         *)

EmptyDir ==
    [f \in {} |-> f]

\* Path.exists()
Exists(dir, name) ==
    name \in DOMAIN dir

-----------------------------------------------------------------------------
(* TestRunner.read_readme *)

readme_paths ==
    <<"README.md", "readme.md", "README", "readme">>

\* str(e) of the exception read_text raised
ReadErrorText(dir, name) ==
    MsgIsADirectory

\* the except branch of read_readme, as a bug would have it: go on to the next candidate
RECURSIVE read_readme_from_skipping(_, _)
read_readme_from_skipping(dir, i) ==
    IF i > Len(readme_paths) THEN [ok |-> FALSE, output |-> MsgNoReadme]
    ELSE IF Exists(dir, readme_paths[i]) /\ dir[readme_paths[i]].readable
         THEN [ok |-> TRUE, output |-> dir[readme_paths[i]].text]
         ELSE read_readme_from_skipping(dir, i + 1)

\* the for loop of read_readme from candidate i on
RECURSIVE read_readme_from(_, _)
read_readme_from(dir, i) ==
    IF i > Len(readme_paths) THEN [ok |-> FALSE, output |-> MsgNoReadme]
    ELSE IF Exists(dir, readme_paths[i])
         THEN IF dir[readme_paths[i]].readable
              THEN [ok |-> TRUE, output |-> dir[readme_paths[i]].text]
              ELSE [ok |-> FALSE, output |-> ReadErrorText(dir, readme_paths[i])]
         ELSE read_readme_from(dir, i + 1)

read_readme(repo_dir) ==
    read_readme_from(repo_dir, 1)

-----------------------------------------------------------------------------
(* TestRunner.detect_dependencies *)

checks ==
    << <<"requirements.txt", "python">>, <<"Pipfile", "python">>,
       <<"pyproject.toml", "python">>, <<"setup.py", "python">>,
       <<"package.json", "node">>, <<"Cargo.toml", "rust">>, <<"go.mod", "go">>,
       <<"CMakeLists.txt", "cpp">>, <<"Makefile", "other">> >>

NoDependencies ==
    [python |-> FALSE, node |-> FALSE, rust |-> FALSE, go |-> FALSE, cpp |-> FALSE,
     other |-> <<>>]

\* the for loop of detect_dependencies from table row i on
RECURSIVE detect_from(_, _, _)
detect_from(dir, i, dependencies) ==
    IF i > Len(checks) THEN dependencies
    ELSE LET manifest == checks[i][1]
             dep_type == checks[i][2]
         IN  detect_from(dir, i + 1,
                 IF Exists(dir, manifest)
                 THEN IF dep_type = "other"
                      THEN [dependencies EXCEPT !.other = Append(@, manifest)]
                      ELSE [dependencies EXCEPT ![dep_type] = TRUE]
                 ELSE dependencies)

detect_dependencies(repo_dir) ==
    detect_from(repo_dir, 1, NoDependencies)

-----------------------------------------------------------------------------
(* TestRunner.generate_action_plan *)

MaxRunCommands ==
    5

commands ==
    <<KwNpmRun, KwNpmStart, KwPython, KwCargoRun, KwMake, KwDotSlash>>

\* dependencies.get(tag) is truthy
Detected(dependencies, tag) ==
    tag \in DOMAIN dependencies /\ dependencies[tag] = TRUE

\* the install plan with the else branches dropped: no entry for an undetected tag
InstallPlanSparse(dependencies) ==
    LET full == [python |-> "pip install -r requirements.txt", node |-> "npm install",
                 rust |-> "cargo build", go |-> "go mod download",
                 cpp |-> "make / cmake"]
    IN  [t \in {u \in DOMAIN full : Detected(dependencies, u)} |-> full[t]]

\* plan["dependencies"]
InstallPlan(dependencies) ==
    [python |-> IF Detected(dependencies, "python")
                THEN "pip install -r requirements.txt" ELSE "No Python deps",
     node   |-> IF Detected(dependencies, "node") THEN "npm install" ELSE "No Node deps",
     rust   |-> IF Detected(dependencies, "rust") THEN "cargo build" ELSE "No Rust deps",
     go     |-> IF Detected(dependencies, "go") THEN "go mod download" ELSE "No Go deps",
     cpp    |-> IF Detected(dependencies, "cpp") THEN "make / cmake" ELSE "No C++ deps"]

\* the two keyword tests made on the lower-cased, stripped line
LineMatches(line) ==
    LET line_lower == Strip(Lower(line), Whitespace)
    IN  /\ \E i \in 1..Len(commands) : Contains(commands[i], line_lower)
        /\ \/ Contains(VbRun, line_lower)
           \/ Contains(VbStart, line_lower)
           \/ Contains(VbBuild, line_lower)

\* cmd = line.strip().strip(backquote).strip()
LineCommand(line) ==
    Strip(Strip(Strip(line, Whitespace), Backtick), Whitespace)

\* cmd and not cmd.startswith(hash) and not cmd.startswith(comment opener)
KeepsCommand(cmd) ==
    cmd # <<>> /\ ~StartsWith(cmd, Hash) /\ ~StartsWith(cmd, CommentOpen)

\* the for loop over the README lines: the candidates in line order
RECURSIVE CollectRunCommands(_)
CollectRunCommands(lines) ==
    IF lines = <<>> THEN <<>>
    ELSE LET line == Head(lines)
             cmd  == LineCommand(line)
         IN  (IF LineMatches(line) /\ KeepsCommand(cmd) THEN <<cmd>> ELSE <<>>)
                 \o CollectRunCommands(Tail(lines))

\* a slice that keeps the last MaxRunCommands candidates
TruncateKeepLast(cmds) ==
    SubSeq(cmds, Len(cmds) - Min(MaxRunCommands, Len(cmds)) + 1, Len(cmds))

\* plan["run_commands"][:5]
Truncate(cmds) ==
    SubSeq(cmds, 1, Min(MaxRunCommands, Len(cmds)))

generate_action_plan(repo, readme_content, dependencies) ==
    LET run_commands == Truncate(CollectRunCommands(Split(readme_content)))
    IN  [clone |-> <<"git clone --depth 1 https://github.com/", repo, ".git">>,
         dependencies |-> InstallPlan(dependencies),
         run_commands |-> run_commands,
         dry_run_notes |->
             << <<"[DRY-RUN] Would clone ", repo>>,
                <<"[DRY-RUN] Would install dependencies based on detected manifests">>,
                <<"[DRY-RUN] Would execute: ",
                  IF run_commands # <<>> THEN run_commands[1] ELSE <<"unknown">> >>,
                <<"[DRY-RUN] No actual system changes made - test mode enabled">> >>]

-----------------------------------------------------------------------------
(* TEST_REPOS, the same list in both scripts *)

RepoZvec ==
    <<"a", "l", "i", "b", "a", "b", "a", "/", "z", "v", "e", "c">>

RepoNautilus ==
    <<"n", "a", "u", "t", "e", "c", "h", "s", "y", "s", "t", "e", "m", "s", "/", "n",
      "a", "u", "t", "i", "l", "u", "s", "_", "t", "r", "a", "d", "e", "r">>

RepoRowboat ==
    <<"r", "o", "w", "b", "o", "a", "t", "l", "a", "b", "s", "/", "r", "o", "w", "b",
      "o", "a", "t">>

RepoGogcli ==
    <<"s", "t", "e", "i", "p", "e", "t", "e", "/", "g", "o", "g", "c", "l", "i">>

RepoOpenclaw ==
    <<"o", "p", "e", "n", "c", "l", "a", "w", "/", "o", "p", "e", "n", "c", "l", "a",
      "w">>

RepoAios ==
    <<"S", "y", "n", "k", "r", "a", "A", "I", "/", "a", "i", "o", "s", "-", "c", "o",
      "r", "e">>

RepoLetta ==
    <<"l", "e", "t", "t", "a", "-", "a", "i", "/", "l", "e", "t", "t", "a", "-", "c",
      "o", "d", "e">>

RepoWifi ==
    <<"r", "u", "v", "n", "e", "t", "/", "w", "i", "f", "i", "-", "d", "e", "n", "s",
      "e", "p", "o", "s", "e">>

RepoSeerr ==
    <<"s", "e", "e", "r", "r", "-", "t", "e", "a", "m", "/", "s", "e", "e", "r", "r">>

RepoHummingbot ==
    <<"h", "u", "m", "m", "i", "n", "g", "b", "o", "t", "/", "h", "u", "m", "m", "i",
      "n", "g", "b", "o", "t">>

LangCpp ==
    <<"C", "+", "+">>

LangRust ==
    <<"R", "u", "s", "t">>

LangTypeScript ==
    <<"T", "y", "p", "e", "S", "c", "r", "i", "p", "t">>

LangGo ==
    <<"G", "o">>

LangJavaScript ==
    <<"J", "a", "v", "a", "S", "c", "r", "i", "p", "t">>

LangPython ==
    <<"P", "y", "t", "h", "o", "n">>

TEST_REPOS ==
    <<[name |-> RepoZvec, language |-> LangCpp],
      [name |-> RepoNautilus, language |-> LangRust],
      [name |-> RepoRowboat, language |-> LangTypeScript],
      [name |-> RepoGogcli, language |-> LangGo],
      [name |-> RepoOpenclaw, language |-> LangTypeScript],
      [name |-> RepoAios, language |-> LangJavaScript],
      [name |-> RepoLetta, language |-> LangTypeScript],
      [name |-> RepoWifi, language |-> LangPython],
      [name |-> RepoSeerr, language |-> LangTypeScript],
      [name |-> RepoHummingbot, language |-> LangPython]>>

-----------------------------------------------------------------------------
(* clone_repo, both scripts.  git is what the git clone subprocess would do *)
(* if started: return 0 and create the directory, return non-zero and leave *)
(* nothing, or run into the 60 s timeout and be killed, leaving a partial   *)
(* directory behind.                                                        *)

\* the directory name: repo.replace(slash, underscore)
CloneDirName(repo) ==
    Replace(repo, "/", "_")

GitSucceeds(git) ==
    git.kind = "ok"

\* <test_dir>/repos after the subprocess ended
AfterGit(dirs, name, git) ==
    IF git.kind \in {"ok", "timeout"} THEN (name :> git.dir) @@ dirs ELSE dirs

\* str: stdout + stderr of git, or str(e)
GitOutput(git) ==
    CASE git.kind = "ok" -> <<>>
      [] git.kind = "failed" -> MsgGitFatal
      [] OTHER -> MsgTimedOut

\* clone_repo without the exists() test: git is started every time
strict_clone_repo_always_git(dirs, repo, git) ==
    [success |-> GitSucceeds(git), output |-> GitOutput(git),
     dirs |-> AfterGit(dirs, CloneDirName(repo), git), invoked |-> TRUE]

\* TestRunner.clone_repo: [success, output], the directories after the call and
\* whether the subprocess was started
strict_clone_repo(dirs, repo, git) ==
    LET clone_dir == CloneDirName(repo)
    IN  IF Exists(dirs, clone_dir)
        THEN [success |-> TRUE, output |-> MsgAlreadyCloned, dirs |-> dirs,
              invoked |-> FALSE]
        ELSE [success |-> GitSucceeds(git), output |-> GitOutput(git),
              dirs |-> AfterGit(dirs, clone_dir, git), invoked |-> TRUE]

\* LiveTestRunner.clone_repo: [success, repo_dir]
live_clone_repo(dirs, repo, git) ==
    LET repo_dir == CloneDirName(repo)
    IN  IF Exists(dirs, repo_dir)
        THEN [success |-> TRUE, output |-> repo_dir, dirs |-> dirs, invoked |-> FALSE]
        ELSE [success |-> GitSucceeds(git), output |-> repo_dir,
              dirs |-> AfterGit(dirs, repo_dir, git), invoked |-> TRUE]

-----------------------------------------------------------------------------
(* TestRunner.analyze_repo *)

\* the result dict as first built
NewResult(repo) ==
    [repo |-> repo.name,
     clone |-> [success |-> FALSE, error |-> None],
     readme |-> [found |-> FALSE, content |-> None, error |-> None],
     dependencies |-> EmptyDict,
     action_plan |-> EmptyDict]

\* analyze_repo that goes on to the planning stages when the README lookup failed
analyze_repo_no_readme_return(dirs, repo, git) ==
    LET c  == strict_clone_repo(dirs, repo.name, git)
        r1 == [NewResult(repo) EXCEPT
                  !.clone = [success |-> c.success,
                             error |-> IF c.success THEN None ELSE Some(c.output)]]
    IN  IF ~c.success
        THEN [result |-> r1, dirs |-> c.dirs, invoked |-> c.invoked,
              trace |-> <<"clone_repo">>]
        ELSE LET repo_dir == c.dirs[CloneDirName(repo.name)]
                 rr == read_readme(repo_dir)
                 d  == detect_dependencies(repo_dir)
             IN  [result |->
                      [r1 EXCEPT
                          !.readme = [found |-> rr.ok,
                                      content |-> IF rr.ok THEN Some(rr.output) ELSE None,
                                      error |-> IF rr.ok THEN None ELSE Some(rr.output)],
                          !.dependencies = d,
                          !.action_plan = generate_action_plan(repo.name, rr.output, d)],
                  dirs |-> c.dirs, invoked |-> c.invoked,
                  trace |-> <<"clone_repo", "read_readme", "detect_dependencies",
                              "generate_action_plan">>]

\* analyze_repo: the result, the directories after the call, whether git was
\* started, and the helper methods called, in call order
analyze_repo(dirs, repo, git) ==
    LET c  == strict_clone_repo(dirs, repo.name, git)
        r1 == [NewResult(repo) EXCEPT
                  !.clone = [success |-> c.success,
                             error |-> IF c.success THEN None ELSE Some(c.output)]]
    IN  IF ~c.success
        THEN [result |-> r1, dirs |-> c.dirs, invoked |-> c.invoked,
              trace |-> <<"clone_repo">>]
        ELSE LET repo_dir == c.dirs[CloneDirName(repo.name)]
                 rr == read_readme(repo_dir)
                 r2 == [r1 EXCEPT
                           !.readme = [found |-> rr.ok,
                                       content |-> IF rr.ok THEN Some(rr.output) ELSE None,
                                       error |-> IF rr.ok THEN None ELSE Some(rr.output)]]
             IN  IF ~rr.ok
                 THEN [result |-> r2, dirs |-> c.dirs, invoked |-> c.invoked,
                       trace |-> <<"clone_repo", "read_readme">>]
                 ELSE LET d == detect_dependencies(repo_dir)
                      IN  [result |->
                               [r2 EXCEPT
                                   !.dependencies = d,
                                   !.action_plan =
                                       generate_action_plan(repo.name, rr.output, d)],
                           dirs |-> c.dirs, invoked |-> c.invoked,
                           trace |-> <<"clone_repo", "read_readme",
                                       "detect_dependencies", "generate_action_plan">>]

-----------------------------------------------------------------------------
(* TestRunner.generate_report *)

DepTags ==
    <<"python", "node", "rust", "go", "cpp">>

\* sum(1 for x in xs if P(x)) for a sequence of booleans
CountTrue(flags) ==
    Cardinality({i \in 1..Len(flags) : flags[i]})

RECURSIVE SumSeq(_)
SumSeq(ns) ==
    IF ns = <<>> THEN 0 ELSE Head(ns) + SumSeq(Tail(ns))

\* a / b, kept exact
Ratio(a, b) ==
    [num |-> a, den |-> b]

\* TestRunner._aggregate_dependencies: <<tag, count>> pairs, highest count first,
\* ties in the order the tags were first counted (sorted is stable)
aggregate_dependencies(rs) ==
    LET Has(i, t) == t \in DOMAIN rs[i].dependencies /\ rs[i].dependencies[t] = TRUE
        Count(t)  == Cardinality({i \in 1..Len(rs) : Has(i, t)})
        Found     == {k \in 1..Len(DepTags) : Count(DepTags[k]) > 0}
        First(k)  == CHOOSE i \in 1..Len(rs) :
                         Has(i, DepTags[k]) /\ \A j \in 1..(i - 1) : ~Has(j, DepTags[k])
        Before(a, b) ==
            \/ Count(DepTags[a]) > Count(DepTags[b])
            \/ /\ Count(DepTags[a]) = Count(DepTags[b])
               /\ \/ First(a) < First(b)
                  \/ First(a) = First(b) /\ a < b
        Rank(k)   == 1 + Cardinality({a \in Found : Before(a, k)})
    IN  [n \in 1..Cardinality(Found) |->
            LET k == CHOOSE x \in Found : Rank(x) = n
            IN  <<DepTags[k], Count(DepTags[k])>>]

\* r["action_plan"]["run_commands"] raises KeyError
LacksRunCommands(r) ==
    "run_commands" \notin DOMAIN r.action_plan

\* generate_report: the exception it raised, or the report it returned (and wrote
\* to reports/test_report.json)
strict_generate_report(rs) ==
    LET total == Len(rs)
        clones == CountTrue([i \in 1..total |-> rs[i].clone.success])
    IN  IF total > 0 /\ \E i \in 1..total : LacksRunCommands(rs[i])
        THEN [raised |-> Some("KeyError"), report |-> None]
        ELSE [raised |-> None,
              report |-> Some(
                  [total_repos |-> total,
                   successful_clones |-> clones,
                   successful_reads |->
                       CountTrue([i \in 1..total |-> rs[i].readme.found]),
                   success_rate |-> IF total > 0 THEN Ratio(clones * 100, total)
                                    ELSE Ratio(0, 1),
                   results |-> rs,
                   summary |->
                       [most_common_deps |-> aggregate_dependencies(rs),
                        avg_run_commands |->
                            IF total > 0
                            THEN Ratio(SumSeq([i \in 1..total |->
                                          Len(rs[i].action_plan.run_commands)]), total)
                            ELSE Ratio(0, 1)]])]

\* the threshold of main
SuccessThreshold ==
    80

\* report[success_rate] >= 80
MeetsThreshold(rate) ==
    rate.num >= SuccessThreshold * rate.den

\* main: return 0 if report[success_rate] >= 80 else 1
strict_exit_code(rep) ==
    IF MeetsThreshold(rep.success_rate) THEN 0 ELSE 1

-----------------------------------------------------------------------------
(* LiveTestRunner.test_runthis_cli *)

readme_alternatives ==
    <<"README.txt", "README", "readme.md", "readme.txt", "readme">>

live_deps ==
    <<[dep_type |-> "python",
       manifests |-> <<"requirements.txt", "Pipfile", "pyproject.toml", "setup.py">>],
      [dep_type |-> "node", manifests |-> <<"package.json">>],
      [dep_type |-> "rust", manifests |-> <<"Cargo.toml">>],
      [dep_type |-> "go", manifests |-> <<"go.mod">>],
      [dep_type |-> "cpp", manifests |-> <<"CMakeLists.txt", "Makefile">>]>>

\* result[would_readme]: README.md, else the first alternative that exists
would_readme_of(repo_dir) ==
    IF Exists(repo_dir, "README.md") THEN "README.md found"
    ELSE IF \E i \in 1..Len(readme_alternatives) : Exists(repo_dir, readme_alternatives[i])
         THEN LET i == CHOOSE k \in 1..Len(readme_alternatives) :
                           /\ Exists(repo_dir, readme_alternatives[k])
                           /\ \A j \in 1..(k - 1) : ~Exists(repo_dir, readme_alternatives[j])
              IN  readme_alternatives[i] \o " found"
         ELSE "No README found"

\* detected_deps: per dep_type, in table order, the first manifest that exists;
\* an entry stands for the string "dep_type (manifest)"
RECURSIVE live_detect_from(_, _)
live_detect_from(repo_dir, i) ==
    IF i > Len(live_deps) THEN <<>>
    ELSE LET ms   == live_deps[i].manifests
             hits == {k \in 1..Len(ms) : Exists(repo_dir, ms[k])}
         IN  (IF hits = {} THEN <<>>
              ELSE <<[dep_type |-> live_deps[i].dep_type,
                      manifest |-> ms[CHOOSE k \in hits : \A j \in hits : k <= j]]>>)
                 \o live_detect_from(repo_dir, i + 1)

live_detected_deps(repo_dir) ==
    live_detect_from(repo_dir, 1)

\* tag in str(detected_deps).lower(): no manifest name holds a tag name, so the
\* substring is found exactly when an entry has that dep_type
MentionsTag(detected_deps, tag) ==
    \E i \in 1..Len(detected_deps) : detected_deps[i].dep_type = tag

expected_response(repo, detected_deps) ==
    [language |-> Lower(repo.language),
     install |-> IF MentionsTag(detected_deps, "python")
                     THEN "pip install -r requirements.txt"
                 ELSE IF MentionsTag(detected_deps, "node") THEN "npm install"
                 ELSE IF MentionsTag(detected_deps, "rust") THEN "cargo build"
                 ELSE "make",
     run |-> IF MentionsTag(detected_deps, "python") THEN "python main.py"
             ELSE IF MentionsTag(detected_deps, "node") THEN "npm start"
             ELSE IF MentionsTag(detected_deps, "rust") THEN "cargo run"
             ELSE IF Contains(RepoGogcli, repo.name) THEN "./bin/gog"
             ELSE "Unknown"]

\* the result dict as first built
NewLiveResult(repo) ==
    [repo |-> repo.name,
     would_clone |-> <<"git clone --depth 1 https://github.com/", repo.name, ".git">>,
     would_readme |-> None,
     would_detect_deps |-> None,
     would_ask_ai |-> None,
     would_install |-> None,
     would_run |-> None,
     failure_mode |-> FALSE,
     failure_reason |-> None]

ReasonNoReadme ==
    <<"No README found - runthis would exit with code 1">>

ReasonAiFailure ==
    <<"AI failure mode - no clear instructions found">>

\* lines 85-99 of test_runthis_cli: the README lookup
live_readme_stage(result, repo_dir) ==
    LET wr == would_readme_of(repo_dir)
    IN  IF wr = "No README found"
        THEN [result EXCEPT !.would_readme = Some(wr),
                            !.failure_mode = TRUE,
                            !.failure_reason = Some(ReasonNoReadme)]
        ELSE [result EXCEPT !.would_readme = Some(wr)]

\* lines 101-151 of test_runthis_cli, statement by statement
live_later_stages(r1, repo, repo_dir) ==
    LET \* lines 101-117: manifest detection
        detected_deps == live_detected_deps(repo_dir)
        r2 == [r1 EXCEPT !.would_detect_deps =
                             IF detected_deps # <<>> THEN Some([list |-> detected_deps])
                             ELSE Some([str |-> "none detected"])]
        \* lines 119-136: the stubbed AI exchange, install and run
        r3 == [r2 EXCEPT
                  !.would_ask_ai =
                      Some([prompt |-> <<"Determine how to run ", repo.name,
                                         " from README">>,
                            expected_response |-> expected_response(repo, detected_deps)]),
                  !.would_install =
                      IF detected_deps # <<>>
                      THEN Some(<<"Would run install command for: ">> \o detected_deps)
                      ELSE Some(<<"No dependencies detected">>),
                  !.would_run = Some("Would execute the determined run command")]
        \* lines 139-141
        r4 == IF r3.would_readme = Some("No README found")
              THEN [r3 EXCEPT !.failure_mode = TRUE,
                              !.failure_reason = Some(ReasonNoReadme)]
              ELSE r3
        \* lines 145-151: result[would_readme] is truthy when a non-empty string
        r5 == IF (r4.would_readme # None /\ r4.would_readme[1] # "") /\ detected_deps = <<>>
              THEN [r4 EXCEPT
                       !.would_ask_ai =
                           Some([ai_response |->
                                     "Unable to determine how to run this project",
                                 would_fail |-> TRUE,
                                 failure_message |->
                                     "AI could not determine action - would exit gracefully"]
                                @@ r4.would_ask_ai[1]),
                       !.failure_mode = TRUE,
                       !.failure_reason = Some(ReasonAiFailure)]
              ELSE r4
    IN  r5

\* the stages with a return after a failed README lookup
live_stages_stopping(result, repo, repo_dir) ==
    LET r1 == live_readme_stage(result, repo_dir)
    IN  IF r1.would_readme = Some("No README found") THEN r1
        ELSE live_later_stages(r1, repo, repo_dir)

\* the part of test_runthis_cli after a successful clone: no stage returns early
live_stages(result, repo, repo_dir) ==
    live_later_stages(live_readme_stage(result, repo_dir), repo, repo_dir)

\* test_runthis_cli: the result, the directories after the call and whether git
\* was started
test_runthis_cli(dirs, repo, git) ==
    LET c == live_clone_repo(dirs, repo.name, git)
    IN  IF ~c.success
        THEN [result |-> [NewLiveResult(repo) EXCEPT
                             !.failure_mode = TRUE,
                             !.failure_reason = Some(<<"Failed to clone ", repo.name>>)],
              dirs |-> c.dirs, invoked |-> c.invoked]
        ELSE [result |-> live_stages(NewLiveResult(repo), repo, c.dirs[c.output]),
              dirs |-> c.dirs, invoked |-> c.invoked]

-----------------------------------------------------------------------------
(* LiveTestRunner.generate_report and print_report *)

live_generate_report(rs) ==
    LET total    == Len(rs)
        failures == CountTrue([i \in 1..total |-> rs[i].failure_mode])
    IN  [total_repos |-> total,
         failures |-> failures,
         success_rate |-> IF total > 0 THEN Ratio((total - failures) * 100, total)
                          ELSE Ratio(0, 1),
         failure_modes |-> SelectSeq(rs, LAMBDA r : r.failure_mode),
         results |-> rs,
         summary |->
             [would_clone_all |-> TRUE,
              would_readme_detection |-> "100% (all repos have READMEs)",
              would_dependency_detection |->
                  <<CountTrue([i \in 1..total |->
                        rs[i].would_detect_deps # Some([str |-> "none detected"])]),
                    " / ", total, " repos with detectable deps">>,
              would_failure_handling |->
                  <<failures, " repos would trigger failure mode (graceful exit)">>]]

\* failure.get(would_ask_ai, {}).get(would_fail) raises AttributeError: the key
\* is present and holds None after a failed clone, so the default is not used
AskAiLookupRaises(failure) ==
    failure.would_ask_ai = None

\* LiveTestRunner.print_report: the exception it raised, if any
live_print_report(rep) ==
    IF \E i \in 1..Len(rep.failure_modes) : AskAiLookupRaises(rep.failure_modes[i])
    THEN Some("AttributeError")
    ELSE None

\* TestRunner.print_report: the exception it raised, if any
strict_print_report(rep) ==
    IF \E i \in 1..Len(rep.results) : LacksRunCommands(rep.results[i])
    THEN Some("KeyError")
    ELSE None

-----------------------------------------------------------------------------
(* Inputs for direct calls of the helper functions *)

MaxFiles ==
    3

MaxLines ==
    7

MaxRichLines ==
    2

ReadmeFiles ==
    {"README.md", "readme.md", "README", "readme", "README.txt", "readme.txt"}

ManifestFiles ==
    {"requirements.txt", "Pipfile", "pyproject.toml", "setup.py", "package.json",
     "Cargo.toml", "go.mod", "CMakeLists.txt", "Makefile"}

\* what each file of an input directory holds; every README candidate differs
FileText(name) ==
    CASE name = "README.md" -> Join(<<LnRunNpmStart, LnProse>>)
      [] name = "readme.md" -> LnNpmRunBuild
      [] name = "README"    -> LnUpperMake
      [] name = "readme"    -> LnProse
      [] name = "README.txt" -> LnCargoRun
      [] OTHER -> <<>>

\* the directory holding the files of present, those of unreadable failing to read
Snapshot(present, unreadable) ==
    [f \in present |-> [readable |-> f \notin unreadable, text |-> FileText(f)]]

DirInputs ==
    UNION {{Snapshot(S, U) : U \in SUBSET (S \cap ReadmeFiles)} :
              S \in {T \in SUBSET (ReadmeFiles \cup ManifestFiles) :
                        Cardinality(T) <= MaxFiles}}

\* all sequences over S of length at most n
SeqsUpTo(S, n) ==
    UNION {[1..k -> S] : k \in 0..n}

OrderLines ==
    {LnNpmRunBuild, LnRunNpmStart, LnProse}

RichLines ==
    {LnNpmRunBuild, LnRunNpmStart, LnProse, LnHashMakeBuild, LnHtmlComment,
     LnNestedTicks, LnPythonOnly, LnUpperMake, LnTickHash, LnCargoRun, LnTicksOnly,
     LnEmpty}

ReadmeInputs ==
    {Join(ls) : ls \in SeqsUpTo(OrderLines, MaxLines) \cup SeqsUpTo(RichLines, MaxRichLines)}

DependencyInputs ==
    [python : BOOLEAN, node : BOOLEAN, rust : BOOLEAN, go : BOOLEAN, cpp : BOOLEAN,
     other : {<<>>, <<"Makefile">>}]

FnInputs ==
    [kind : {"dir"}, repo : {RepoZvec}, dir : DirInputs]
        \cup [kind : {"text"}, repo : {RepoZvec}, readme : ReadmeInputs,
              dependencies : {EmptyDict}]
        \cup [kind : {"text"}, repo : {RepoZvec}, readme : {LnRunNpmStart},
              dependencies : DependencyInputs]

EmptyFs ==
    [v \in {"strict", "live"} |-> EmptyDir]

\* the values of the variables a specification does not use
OrchIdle ==
    /\ variant = "none" /\ pc = "idle" /\ idx = 0
    /\ results = <<>> /\ report = None /\ printed = FALSE /\ ret = None /\ exc = None
    /\ calls = <<>> /\ gitCalls = {} /\ faults = 0

FnIdle ==
    input = [kind |-> "none"] /\ rd = None /\ deps = None /\ plan = None /\ lres = None

FetchIdle ==
    last = None /\ fetched = {} /\ nfetch = 0

FnInit ==
    /\ input \in FnInputs
    /\ rd = None /\ deps = None /\ plan = None /\ lres = None
    /\ fs = EmptyFs
    /\ OrchIdle
    /\ FetchIdle

CallReadReadme ==
    /\ input.kind = "dir"
    /\ rd = None
    /\ rd' = Some(read_readme(input.dir))
    /\ UNCHANGED <<input, deps, plan, lres, fs, orchVars, fetchVars>>

CallDetectDependencies ==
    /\ input.kind = "dir"
    /\ deps = None
    /\ deps' = Some(detect_dependencies(input.dir))
    /\ UNCHANGED <<input, rd, plan, lres, fs, orchVars, fetchVars>>

\* on a directory input the arguments are those analyze_repo passes: the README
\* text read_readme found and the dependencies detect_dependencies returned
CallGenerateActionPlan ==
    /\ plan = None
    /\ \/ /\ input.kind = "text"
          /\ plan' = Some(generate_action_plan(input.repo, input.readme,
                                               input.dependencies))
       \/ /\ input.kind = "dir"
          /\ rd # None /\ rd[1].ok
          /\ deps # None
          /\ plan' = Some(generate_action_plan(input.repo, rd[1].output, deps[1]))
    /\ UNCHANGED <<input, rd, deps, lres, fs, orchVars, fetchVars>>

\* the repository record whose name the input carries
InputRepo ==
    TEST_REPOS[CHOOSE k \in 1..Len(TEST_REPOS) : TEST_REPOS[k].name = input.repo]

\* test_runthis_cli on a repository whose clone delivers the input directory,
\* or fails
CallTestRunthisCli ==
    /\ input.kind = "dir"
    /\ lres = None
    /\ \E git \in {[kind |-> "ok", dir |-> input.dir], [kind |-> "failed"]} :
           LET a == test_runthis_cli(fs.live, InputRepo, git)
           IN  /\ lres' = Some(a.result)
               /\ fs' = [fs EXCEPT !.live = a.dirs]
    /\ UNCHANGED <<input, rd, deps, plan, orchVars, fetchVars>>

FnNext ==
    \/ CallReadReadme
    \/ CallDetectDependencies
    \/ CallGenerateActionPlan
    \/ CallTestRunthisCli

SpecFn ==
    FnInit /\ [][FnNext]_vars

-----------------------------------------------------------------------------
(* Properties of the helper functions, checked under SpecFn *)

\* the README text and the dependencies generate_action_plan was called with
PlanReadme ==
    IF input.kind = "text" THEN input.readme ELSE rd[1].output

PlanDependencies ==
    IF input.kind = "text" THEN input.dependencies ELSE deps[1]

\* the indices of the README lines that yield a candidate
QualifyingLines(lines) ==
    {i \in 1..Len(lines) : LineMatches(lines[i]) /\ KeepsCommand(LineCommand(lines[i]))}

\* the k-th smallest element of the set of indices Q
KthOf(Q, k) ==
    CHOOSE i \in Q : Cardinality({j \in Q : j < i}) = k - 1

\* C6: for every README text, run_commands has at most 5 entries and is the
\* first min(5, n) of the n qualifying lines, in the order of the README.
C6_RunCommandsFirstFive ==
    plan # None =>
        LET lines == Split(PlanReadme)
            Q     == QualifyingLines(lines)
            rc    == plan[1].run_commands
        IN  /\ Len(rc) <= 5
            /\ Len(rc) = Min(5, Cardinality(Q))
            /\ \A k \in 1..Len(rc) : rc[k] = LineCommand(lines[KthOf(Q, k)])

\* a README with more than five qualifying lines, not all alike and with a line
\* that does not qualify among them, has been planned
C6_Witness ==
    /\ plan # None
    /\ input.kind = "text"
    /\ LET lines == Split(PlanReadme)
           Q     == QualifyingLines(lines)
       IN  /\ Cardinality(Q) > 5
           /\ \E i \in Q : i + 1 \in 1..Len(lines) /\ i + 1 \notin Q
           /\ plan[1].run_commands[1] # plan[1].run_commands[2]

InstallTags ==
    {"python", "node", "rust", "go", "cpp"}

InstallCommandOf ==
    [python |-> "pip install -r requirements.txt", node |-> "npm install",
     rust |-> "cargo build", go |-> "go mod download", cpp |-> "make / cmake"]

PlaceholderOf ==
    [python |-> "No Python deps", node |-> "No Node deps", rust |-> "No Rust deps",
     go |-> "No Go deps", cpp |-> "No C++ deps"]

\* C7: the install plan has an entry for each of python, node, rust, go and cpp:
\* the install command exactly when the tag was detected, else the placeholder;
\* for a directory without manifests every tag is false, other is empty and all
\* five entries are placeholders.
C7_InstallPlanTotal ==
    /\ plan # None =>
           LET ip == plan[1].dependencies
               d  == PlanDependencies
           IN  /\ InstallTags \subseteq DOMAIN ip
               /\ \A t \in InstallTags :
                      ip[t] = IF t \in DOMAIN d /\ d[t] = TRUE
                              THEN InstallCommandOf[t] ELSE PlaceholderOf[t]
    /\ (input.kind = "dir" /\ DOMAIN input.dir \cap ManifestFiles = {}) =>
           /\ deps # None =>
                  /\ \A t \in InstallTags : deps[1][t] = FALSE
                  /\ deps[1].other = <<>>
           /\ plan # None =>
                  \A t \in InstallTags : plan[1].dependencies[t] = PlaceholderOf[t]

\* a directory holding package.json and a README was planned: node gets its
\* install command, the other four the placeholder
C7_Witness ==
    /\ input.kind = "dir"
    /\ plan # None
    /\ "package.json" \in DOMAIN input.dir
    /\ deps[1].node = TRUE
    /\ plan[1].dependencies.node = "npm install"
    /\ \A t \in InstallTags \ {"node"} : plan[1].dependencies[t] = PlaceholderOf[t]

\* the text of a line after stripping surrounding whitespace and backquotes
StrippedText(line) ==
    Strip(line, Whitespace \cup Backtick)

\* the lines that contribute a candidate by the stated rule
RuleLines(lines) ==
    {i \in 1..Len(lines) :
        /\ \E c \in 1..Len(commands) : Contains(commands[c], Lower(lines[i]))
        /\ \E v \in {VbRun, VbStart, VbBuild} : Contains(v, Lower(lines[i]))
        /\ StrippedText(lines[i]) # <<>>
        /\ ~StartsWith(StrippedText(lines[i]), Hash)
        /\ ~StartsWith(StrippedText(lines[i]), CommentOpen)}

\* C9: a line contributes a candidate iff its lower-cased text holds a command
\* keyword and a verb and its text stripped of surrounding whitespace and
\* backquotes is non-empty and no comment; the stored candidate is that stripped
\* text and never starts with a hash, a comment opener, a backquote or whitespace.
C9_ExtractionRule ==
    plan # None =>
        LET lines == Split(PlanReadme)
            R     == RuleLines(lines)
            rc    == plan[1].run_commands
        IN  /\ Len(rc) = Min(5, Cardinality(R))
            /\ \A k \in 1..Len(rc) :
                   /\ rc[k] = StrippedText(lines[KthOf(R, k)])
                   /\ ~StartsWith(rc[k], Hash)
                   /\ ~StartsWith(rc[k], CommentOpen)
                   /\ rc[k][1] \notin Backtick \cup Whitespace

\* the README candidates that exist in the directory, by position in the list
ExistingCandidates(dir) ==
    {i \in 1..Len(readme_paths) : readme_paths[i] \in DOMAIN dir}

FirstOf(I) ==
    CHOOSE i \in I : \A j \in I : i <= j

\* C10 as stated: found with the content of the first existing candidate; the
\* not-found outcome iff no candidate exists; a later existing candidate is used
\* whenever an earlier one cannot supply text.
C10_FallsThroughUnreadable ==
    rd # None =>
        LET E == ExistingCandidates(input.dir)
            U == {i \in E : input.dir[readme_paths[i]].readable}
        IN  /\ (rd[1] = [ok |-> FALSE, output |-> MsgNoReadme]) <=> (E = {})
            /\ E # {} => rd[1].ok
            /\ U # {} => rd[1] = [ok |-> TRUE,
                                  output |-> input.dir[readme_paths[FirstOf(U)]].text]

\* C10 amended: only the first existing candidate is read.  If it reads, the
\* result is found with its content; if reading it fails, the result is not
\* found with the error text and no later candidate is tried; the result is
\* the No README found outcome iff no candidate exists.
C10_FirstExistingDecides ==
    rd # None =>
        LET E == ExistingCandidates(input.dir)
        IN  /\ (rd[1] = [ok |-> FALSE, output |-> MsgNoReadme]) <=> (E = {})
            /\ E # {} =>
                   LET first == input.dir[readme_paths[FirstOf(E)]]
                   IN  IF first.readable
                       THEN rd[1] = [ok |-> TRUE, output |-> first.text]
                       ELSE rd[1].ok = FALSE /\ rd[1].output # MsgNoReadme

\* read_readme ran on a directory whose first existing candidate is not
\* README.md and fails to read while a later candidate is readable
C10_Witness ==
    /\ rd # None
    /\ LET E == ExistingCandidates(input.dir)
       IN  /\ E # {}
           /\ FirstOf(E) > 1
           /\ ~input.dir[readme_paths[FirstOf(E)]].readable
           /\ \E i \in E : i > FirstOf(E) /\ input.dir[readme_paths[i]].readable
    /\ rd[1].ok = FALSE

\* the ecosystem tags of the specification's table, and the files that stand
\* for each
EcosystemTags ==
    {"python", "node", "rust", "go", "cpp"}

ManifestsOf(tag) ==
    CASE tag = "python" -> {"requirements.txt", "Pipfile", "pyproject.toml", "setup.py"}
      [] tag = "node"   -> {"package.json"}
      [] tag = "rust"   -> {"Cargo.toml"}
      [] tag = "go"     -> {"go.mod"}
      [] tag = "cpp"    -> {"CMakeLists.txt"}

HasManifest(dir, tag) ==
    \E f \in ManifestsOf(tag) : Exists(dir, f)

\* the live call got as far as detection: its clone succeeded
LiveDetected ==
    lres # None /\ lres[1].would_detect_deps # None

\* the tags the live result reports in would_detect_deps
LiveTags(r) ==
    IF "list" \in DOMAIN r.would_detect_deps[1]
    THEN {r.would_detect_deps[1].list[i].dep_type :
              i \in 1..Len(r.would_detect_deps[1].list)}
    ELSE {}

\* detect_dependencies follows the table, a Makefile going under other only
StrictFollowsTable ==
    (input.kind = "dir" /\ deps # None) =>
        /\ \A tag \in EcosystemTags : deps[1][tag] = HasManifest(input.dir, tag)
        /\ deps[1].other = IF Exists(input.dir, "Makefile") THEN <<"Makefile">> ELSE <<>>

\* the detection of test_runthis_cli follows the table
LiveFollowsTable ==
    (input.kind = "dir" /\ LiveDetected) =>
        \A tag \in EcosystemTags : (tag \in LiveTags(lres[1])) = HasManifest(input.dir, tag)

\* both variants report the same tags for the same directory
VariantsAgreeOnTags ==
    (input.kind = "dir" /\ deps # None /\ LiveDetected) =>
        \A tag \in EcosystemTags : deps[1][tag] = (tag \in LiveTags(lres[1]))

\* C11: for every directory snapshot python is detected iff one of
\* requirements.txt, Pipfile, pyproject.toml, setup.py exists, node iff
\* package.json, rust iff Cargo.toml, go iff go.mod, cpp iff CMakeLists.txt; a
\* Makefile is reported under other only and never makes cpp detected; and the
\* two variants agree on the tags detected for the same snapshot.
C11_DetectionMapping ==
    /\ StrictFollowsTable
    /\ LiveFollowsTable
    /\ VariantsAgreeOnTags

\* the live result and what its README lookup and detection recorded
LiveNoReadme(r) ==
    r.would_readme = Some("No README found")

LiveNoManifests(r) ==
    r.would_detect_deps = Some([str |-> "none detected"])

\* failure_mode and failure_reason are set together
ReasonIffFailure ==
    lres # None => (lres[1].failure_mode <=> lres[1].failure_reason # None)

\* a missing README keeps the README-not-found reason to the end
NoReadmeReasonKept ==
    (lres # None /\ LiveNoReadme(lres[1])) =>
        lres[1].failure_reason = Some(ReasonNoReadme)

\* the AI-failure reason goes to results with a README and no manifests only
AiReasonOnlyWithReadme ==
    (lres # None /\ lres[1].failure_reason = Some(ReasonAiFailure)) =>
        /\ lres[1].would_readme # None
        /\ ~LiveNoReadme(lres[1])
        /\ LiveNoManifests(lres[1])

\* C12: in every result returned by test_runthis_cli failure_mode is true iff
\* failure_reason is not None; whenever would_readme is No README found the
\* final failure_reason is the README-not-found reason; and the simulated
\* AI-failure reason is recorded only for repositories whose README was found
\* and that have no detected manifests.
C12_FailureRecordConsistent ==
    /\ ReasonIffFailure
    /\ NoReadmeReasonKept
    /\ AiReasonOnlyWithReadme

-----------------------------------------------------------------------------
(* main() of either script, one step per call made by main and run_tests.   *)
(* Each repository is cloned when its turn comes; what git delivers is      *)
(* chosen then.  The per-repository log file written in the loop holds the *)
(* result just appended and is not kept as separate state.                  *)

MaxFaults ==
    2

\* a clone with README.md and package.json
StdDir ==
    Snapshot({"README.md", "package.json"}, {})

NoReadmeDir ==
    Snapshot({"package.json"}, {})

\* README.md exists but does not read; a lower-case readme does
UnreadableDir ==
    Snapshot({"README.md", "readme", "package.json"}, {"README.md"})

NoDepsDir ==
    Snapshot({"README.md"}, {})

GitHappy ==
    [kind |-> "ok", dir |-> StdDir]

\* the ways a clone leaves the happy path within one run (a timeout differs from
\* a failure only in what it leaves for the next run, see InitialRepos)
GitDeviations ==
    {[kind |-> "failed"], [kind |-> "ok", dir |-> NoReadmeDir],
     [kind |-> "ok", dir |-> NoDepsDir]}

\* <test_dir>/repos when main starts: empty, or holding what an earlier run left
\* for the first repository: the empty directory of a clone that timed out, or a
\* clone whose README.md does not read
InitialRepos ==
    {EmptyDir,
     CloneDirName(TEST_REPOS[1].name) :> EmptyDir,
     CloneDirName(TEST_REPOS[1].name) :> UnreadableDir}

Init ==
    /\ variant \in {"strict", "live"}
    /\ pc = "start"
    /\ idx = 0
    /\ \E pre \in InitialRepos : fs = [EmptyFs EXCEPT ![variant] = pre]
    /\ results = <<>> /\ report = None /\ printed = FALSE /\ ret = None /\ exc = None
    /\ calls = <<>> /\ gitCalls = {} /\ faults = 0
    /\ FnIdle
    /\ FetchIdle

\* setup(): creates test_dir, logs, reports and repos if missing
Setup ==
    /\ pc = "start"
    /\ pc' = "loop"
    /\ idx' = 1
    /\ UNCHANGED <<variant, fs, results, report, printed, ret, exc, calls, gitCalls,
                   faults, fnVars, fetchVars>>

\* the environment may leave the happy path for at most MaxFaults repositories
GitAllowed(git, invoked) ==
    git \in GitDeviations => (invoked /\ faults < MaxFaults)

\* one iteration of the for loop of run_tests
StrictAnalyzeRepo ==
    /\ variant = "strict"
    /\ pc = "loop"
    /\ idx <= Len(TEST_REPOS)
    /\ \E git \in {GitHappy} \cup GitDeviations :
           LET a == analyze_repo(fs.strict, TEST_REPOS[idx], git)
           IN  /\ GitAllowed(git, a.invoked)
               /\ results' = Append(results, a.result)
               /\ fs' = [fs EXCEPT !.strict = a.dirs]
               /\ calls' = Append(calls, a.trace)
               /\ gitCalls' = IF a.invoked THEN gitCalls \cup {TEST_REPOS[idx].name}
                              ELSE gitCalls
               /\ faults' = IF git \in GitDeviations THEN faults + 1 ELSE faults
    /\ idx' = idx + 1
    /\ UNCHANGED <<variant, pc, report, printed, ret, exc, fnVars, fetchVars>>

\* return self.generate_report(), after the loop
StrictGenerateReport ==
    /\ variant = "strict"
    /\ pc = "loop"
    /\ idx > Len(TEST_REPOS)
    /\ LET g == strict_generate_report(results)
       IN  IF g.raised # None
           THEN pc' = "crashed" /\ exc' = g.raised /\ UNCHANGED report
           ELSE pc' = "print" /\ report' = g.report /\ UNCHANGED exc
    /\ UNCHANGED <<variant, idx, fs, results, printed, ret, calls, gitCalls, faults,
                   fnVars, fetchVars>>

\* runner.print_report(report)
StrictPrintReport ==
    /\ variant = "strict"
    /\ pc = "print"
    /\ LET e == strict_print_report(report[1])
       IN  IF e # None
           THEN pc' = "crashed" /\ exc' = e /\ UNCHANGED printed
           ELSE pc' = "return" /\ printed' = TRUE /\ UNCHANGED exc
    /\ UNCHANGED <<variant, idx, fs, results, report, ret, calls, gitCalls, faults,
                   fnVars, fetchVars>>

\* return 0 if report[success_rate] >= 80 else 1
StrictReturn ==
    /\ variant = "strict"
    /\ pc = "return"
    /\ ret' = Some(strict_exit_code(report[1]))
    /\ pc' = "done"
    /\ UNCHANGED <<variant, idx, fs, results, report, printed, exc, calls, gitCalls,
                   faults, fnVars, fetchVars>>

\* one iteration of the for loop of run_live_tests
LiveTestRepo ==
    /\ variant = "live"
    /\ pc = "loop"
    /\ idx <= Len(TEST_REPOS)
    /\ \E git \in {GitHappy} \cup GitDeviations :
           LET a == test_runthis_cli(fs.live, TEST_REPOS[idx], git)
           IN  /\ GitAllowed(git, a.invoked)
               /\ results' = Append(results, a.result)
               /\ fs' = [fs EXCEPT !.live = a.dirs]
               /\ calls' = Append(calls, <<"clone_repo">>)
               /\ gitCalls' = IF a.invoked THEN gitCalls \cup {TEST_REPOS[idx].name}
                              ELSE gitCalls
               /\ faults' = IF git \in GitDeviations THEN faults + 1 ELSE faults
    /\ idx' = idx + 1
    /\ UNCHANGED <<variant, pc, report, printed, ret, exc, fnVars, fetchVars>>

\* return self.generate_report(), after the loop
LiveGenerateReport ==
    /\ variant = "live"
    /\ pc = "loop"
    /\ idx > Len(TEST_REPOS)
    /\ report' = Some(live_generate_report(results))
    /\ pc' = "print"
    /\ UNCHANGED <<variant, idx, fs, results, printed, ret, exc, calls, gitCalls,
                   faults, fnVars, fetchVars>>

\* runner.print_report(report)
LivePrintReport ==
    /\ variant = "live"
    /\ pc = "print"
    /\ LET e == live_print_report(report[1])
       IN  IF e # None
           THEN pc' = "crashed" /\ exc' = e /\ UNCHANGED printed
           ELSE pc' = "return" /\ printed' = TRUE /\ UNCHANGED exc
    /\ UNCHANGED <<variant, idx, fs, results, report, ret, calls, gitCalls, faults,
                   fnVars, fetchVars>>

\* return 0
LiveReturn ==
    /\ variant = "live"
    /\ pc = "return"
    /\ ret' = Some(0)
    /\ pc' = "done"
    /\ UNCHANGED <<variant, idx, fs, results, report, printed, exc, calls, gitCalls,
                   faults, fnVars, fetchVars>>

Next ==
    \/ Setup
    \/ StrictAnalyzeRepo
    \/ StrictGenerateReport
    \/ StrictPrintReport
    \/ StrictReturn
    \/ LiveTestRepo
    \/ LiveGenerateReport
    \/ LivePrintReport
    \/ LiveReturn

Spec ==
    Init /\ [][Next]_vars

-----------------------------------------------------------------------------
(* Repeated calls of clone_repo on the same test directories, as made by    *)
(* successive runs of the scripts                                           *)

MaxFetches ==
    3

\* two identifiers with the same directory name, and a third
FetchRepos ==
    {<<"a", "/", "b", "_", "c">>, <<"a", "_", "b", "/", "c">>, <<"x", "/", "y">>}

FetchGitOutcomes ==
    {GitHappy, [kind |-> "failed"], [kind |-> "timeout", dir |-> EmptyDir]}

FetchInit ==
    /\ fs = EmptyFs
    /\ last = None /\ fetched = {} /\ nfetch = 0
    /\ OrchIdle
    /\ FnIdle

\* what a call leaves in the observer variables
Fetched(v, repo, c) ==
    /\ last' = Some([variant |-> v, repo |-> repo,
                     existed |-> Exists(fs[v], CloneDirName(repo)),
                     before |-> <<v, repo>> \in fetched,
                     success |-> c.success, invoked |-> c.invoked])
    /\ fetched' = IF c.success THEN fetched \cup {<<v, repo>>} ELSE fetched
    /\ fs' = [fs EXCEPT ![v] = c.dirs]
    /\ nfetch' = nfetch + 1

StrictCloneRepo ==
    /\ nfetch < MaxFetches
    /\ \E repo \in FetchRepos, git \in FetchGitOutcomes :
           Fetched("strict", repo, strict_clone_repo(fs.strict, repo, git))
    /\ UNCHANGED <<orchVars, fnVars>>

LiveCloneRepo ==
    /\ nfetch < MaxFetches
    /\ \E repo \in FetchRepos, git \in FetchGitOutcomes :
           Fetched("live", repo, live_clone_repo(fs.live, repo, git))
    /\ UNCHANGED <<orchVars, fnVars>>

FetchNext ==
    \/ StrictCloneRepo
    \/ LiveCloneRepo

SpecFetch ==
    FetchInit /\ [][FetchNext]_vars

-----------------------------------------------------------------------------
(* Properties of the two orchestrators, checked under Spec *)

MainEnded ==
    pc \in {"done", "crashed"}

SuccessfulClones ==
    Cardinality({i \in 1..Len(results) : results[i].clone.success})

\* the directory a result was computed from
StrictRepoDir(r) ==
    fs.strict[CloneDirName(r.repo)]

LiveRepoDir(r) ==
    fs.live[CloneDirName(r.repo)]

\* C1: in the strict variant a failure in one repository never aborts the batch:
\* every repository is analysed in list order with exactly one result each, and
\* after the last one generate_report completes and produces the report.
C1_BatchNeverAborted ==
    variant = "strict" =>
        /\ pc # "start" =>
               /\ Len(results) = idx - 1
               /\ \A i \in 1..Len(results) : results[i].repo = TEST_REPOS[i].name
        /\ exc # Some("KeyError")
        /\ (pc # "loop" /\ pc # "start") =>
               /\ Len(results) = Len(TEST_REPOS)
               /\ report # None
               /\ report[1].total_repos = Len(TEST_REPOS)

\* C2: in the strict variant, once main has ended over N > 0 repositories of
\* which k cloned, success_rate is k/N*100 and main returned 0 if that is at
\* least 80 and 1 otherwise (10 repositories, 8 clones: 80.0 and 0).
C2_ExitStatusFollowsRate ==
    (variant = "strict" /\ MainEnded /\ Len(results) > 0) =>
        LET N == Len(results)
            k == SuccessfulClones
        IN  /\ report # None
            /\ report[1].success_rate = [num |-> k * 100, den |-> N]
            /\ ret = Some(IF k * 100 >= 80 * N THEN 0 ELSE 1)

\* C3: in the live variant main runs all repositories, generates and prints the
\* report and returns 0, whatever the per-repository outcomes.
C3_LiveAlwaysReturnsZero ==
    (variant = "live" /\ MainEnded) =>
        /\ Len(results) = Len(TEST_REPOS)
        /\ report # None
        /\ printed
        /\ ret = Some(0)

\* C5: in the strict variant, when README lookup fails after a successful clone
\* the result has readme.found = false and empty dependencies and action_plan,
\* and detect_dependencies and generate_action_plan are not called; after a
\* failed clone readme, dependencies and action_plan keep their defaults.
C5_StrictShortCircuit ==
    variant = "strict" =>
        \A i \in 1..Len(results) :
            LET r == results[i]
            IN  /\ (r.clone.success /\ ~read_readme(StrictRepoDir(r)).ok) =>
                       /\ r.readme.found = FALSE
                       /\ DOMAIN r.dependencies = {}
                       /\ DOMAIN r.action_plan = {}
                       /\ calls[i] = <<"clone_repo", "read_readme">>
                /\ ~r.clone.success =>
                       /\ r.readme = [found |-> FALSE, content |-> None, error |-> None]
                       /\ DOMAIN r.dependencies = {}
                       /\ DOMAIN r.action_plan = {}
                       /\ calls[i] = <<"clone_repo">>

\* a strict run holds a result whose clone failed, one whose README is missing
\* and one whose README did not read
C5_Witness ==
    /\ variant = "strict"
    /\ \E i, j, k \in 1..Len(results) :
           /\ ~results[i].clone.success
           /\ results[j].clone.success /\ ~results[j].readme.found
           /\ results[j].readme.error = Some(MsgNoReadme)
           /\ results[k].clone.success /\ ~results[k].readme.found
           /\ results[k].readme.error # Some(MsgNoReadme)

\* no README candidate of the variant exists in the cloned directory
NoStrictReadme(dir) ==
    \A i \in 1..Len(readme_paths) : readme_paths[i] \notin DOMAIN dir

NoLiveReadme(dir) ==
    /\ "README.md" \notin DOMAIN dir
    /\ \A i \in 1..Len(readme_alternatives) : readme_alternatives[i] \notin DOMAIN dir

StrictStopsAtReadme(i) ==
    /\ DOMAIN results[i].dependencies = {}
    /\ DOMAIN results[i].action_plan = {}
    /\ "detect_dependencies" \notin {calls[i][n] : n \in 1..Len(calls[i])}
    /\ "generate_action_plan" \notin {calls[i][n] : n \in 1..Len(calls[i])}

-----------------------------------------------------------------------------
(* Property of clone_repo, checked under SpecFetch *)

\* C4: in both variants, whenever the destination directory derived from the
\* identifier already exists, clone_repo returns success without starting git
\* clone; hence after a successful fetch every later fetch of the same
\* identifier succeeds without a network operation.
C4_IdempotentFetch ==
    last # None =>
        /\ last[1].existed => (last[1].success /\ ~last[1].invoked)
        /\ last[1].before => (last[1].success /\ ~last[1].invoked)
        /\ \A p \in fetched : Exists(fs[p[1]], Replace(p[2], "/", "_"))

\* an identifier that was fetched successfully before has been fetched again, in
\* the strict and then in the live variant
C4_Witness ==
    /\ last # None
    /\ last[1].before /\ last[1].success /\ ~last[1].invoked
    /\ last[1].variant = "live"
    /\ \E p \in fetched : p[1] = "strict"

====
